---- MODULE Spec2Model ----
(***************************************************************************)
(* Model of src/main.cpp: the curve classes (vector3d, curve3d, ellipse3d, *)
(* circle3d, helix3d) and the program main() built on them.                *)
(*                                                                         *)
(* Numbers.  The program computes in double.  A double is modelled as a    *)
(* binary floating-point number of MantBits significant bits whose least   *)
(* unit is 1/Scale: the integer n stands for the value n/Scale, and every  *)
(* arithmetic operation rounds its exact result to the nearest             *)
(* representable value, ties to even, as IEEE-754 arithmetic does.  The    *)
(* format is narrower than the 53-bit double, so rounding and absorption   *)
(* happen at smaller magnitudes, but by the same rule.  Infinities, NaN    *)
(* and the sign of zero are not modelled.                                  *)
(*                                                                         *)
(* Specifications.  Spec is the program main().  SpecCurve is the use of   *)
(* the classes by any caller: an object made by any public constructor     *)
(* from parameters of a bounded set, then queried.  SpecQuery is the       *)
(* circle query of main() (lines 148-167) started on any small curve       *)
(* collection, where Spec only ever gives it the 100 curves of its own     *)
(* generation loop.                                                        *)
(***************************************************************************)
EXTENDS Integers, Sequences, FiniteSets, TLC

VARIABLES
    pc,               \* main(): the statement the program is at
    i,                \* main(): index of the running loop
    gen,              \* main(): state of the random generator
    argOrder,         \* the build's order of evaluation of call arguments
    curves,           \* main(): std::vector<std::shared_ptr<curve3d<double>>>
    printed,          \* main(): what the last output statement wrote
    circleContainer,  \* main(): std::vector<circle3d<double>*>, as indices into curves
    firstLast,        \* main(): outcome of reading front() and back()
    totalSum,         \* main(): double totalSum
    cur,              \* a curve object under use by a caller of the classes
    built,            \* the constructor call that made cur
    calls             \* the calculate/derivative calls made on cur, with their results

vars == <<pc, i, gen, argOrder, curves, printed, circleContainer, firstLast,
          totalSum, cur, built, calls>>

mainVars == <<pc, i, gen, argOrder, curves, printed, circleContainer, firstLast,
              totalSum>>

----------------------------------------------------------------------------
(* Bounds of the model *)

MantBits == 20      \* significant bits of the modelled double
NumSeeds == 3       \* seeds std::random_device may hand to the generator
MaxCalls == 3       \* distinct calls recorded on one curve object
MaxLen == 3         \* length of a curve collection given to the circle query

(* The modelled double's least unit is 1/Scale. *)
Scale == 16

----------------------------------------------------------------------------
(* double arithmetic *)

Abs(n) == IF n < 0 THEN -n ELSE n

Sgn(n) == IF n < 0 THEN -1 ELSE IF n > 0 THEN 1 ELSE 0

RECURSIVE BitLen(_)
BitLen(n) == IF n = 0 THEN 0 ELSE 1 + BitLen(n \div 2)

(* Spacing of the representable values at magnitude f (in units). *)
Ulp(f) == IF f < 2^MantBits THEN 1 ELSE 2^(BitLen(f) - MantBits)

(* The representable value nearest to the exact p/q units (q > 0), ties to even. *)
RoundRat(p, q) ==
    LET m == Abs(p)
        u == Ulp(m \div q)
        d == q * u
        k == m \div d
        r == m - k * d
        kk == IF 2 * r > d THEN k + 1
              ELSE IF 2 * r < d THEN k
              ELSE IF k % 2 = 0 THEN k ELSE k + 1
    IN  Sgn(p) * kk * u

(* int -> double conversion *)
FromInt(k) == RoundRat(k * Scale, 1)

FAdd(x, y) == RoundRat(x + y, 1)

FMul(x, y) == RoundRat(x * y, Scale)

FDiv(x, y) == RoundRat(Sgn(y) * x * Scale, Abs(y))

(* <cmath> constants, rounded to the modelled format *)
M_PI == 50
M_PI_4 == 13

CosTab ==
    << 16,  16,  16,  16,  16,  15,  15,  14,  14,  14,  13,  12,  12,  11,  10,   9,   9,   8,   7,   6,
        5,   4,   3,   2,   1,   0,  -1,  -2,  -3,  -4,  -5,  -6,  -7,  -8,  -8,  -9, -10, -11, -12, -12,
      -13, -13, -14, -14, -15, -15, -15, -16, -16, -16, -16, -16, -16, -16, -16, -15, -15, -15, -14, -14,
      -13, -13, -12, -11, -10, -10,  -9,  -8,  -7,  -6,  -5,  -4,  -3,  -2,  -1,   0,   1,   2,   3,   4,
        5,   5,   6,   7,   8,   9,  10,  11,  11,  12,  13,  13,  14,  14,  15,  15,  15,  16,  16,  16,
       16 >>

SinTab ==
    <<  0,   1,   2,   3,   4,   5,   6,   7,   8,   9,   9,  10,  11,  12,  12,  13,  13,  14,  14,  15,
       15,  15,  16,  16,  16,  16,  16,  16,  16,  16,  15,  15,  15,  14,  14,  13,  12,  12,  11,  10,
       10,   9,   8,   7,   6,   5,   4,   3,   2,   1,   0,  -1,  -2,  -3,  -4,  -5,  -6,  -7,  -7,  -8,
       -9, -10, -11, -11, -12, -13, -13, -14, -14, -15, -15, -15, -16, -16, -16, -16, -16, -16, -16, -16,
      -15, -15, -15, -14, -14, -13, -13, -12, -11, -11, -10,  -9,  -8,  -7,  -6,  -5,  -4,  -4,  -3,  -2,
       -1 >>

(* cos and sin of <cmath>: the correctly rounded value, for |angle| <= 100 units *)
cos(angle) == CosTab[Abs(angle) + 1]

sin(angle) == Sgn(angle) * SinTab[Abs(angle) + 1]

----------------------------------------------------------------------------
(* The classes *)

vector3d(x, y, z) == [x |-> x, y |-> y, z |-> z]

(* curve3d(T x, T y, T z) : position(x, y, z).  One record shape serves every
   class; step and angle_start are members of helix3d only and stay 0 in the
   others. *)
curve3d(x, y, z) ==
    [kind |-> "curve", position |-> vector3d(x, y, z), a |-> 0, b |-> 0,
     step |-> 0, angle_start |-> 0]

ellipse3d(x, y, z, a, b) ==
    [curve3d(x, y, z) EXCEPT !.kind = "ellipse", !.a = a, !.b = b]

ellipse3d_xy(x, y, a, b) == ellipse3d(x, y, FromInt(0), a, b)

(* Mutant: the z of the point is written as the literal 0, as in derivative. *)
ellipse_calculate_flat(this, angle) ==
    vector3d(FAdd(this.position.x, FMul(this.a, cos(angle))),
             FAdd(this.position.y, FMul(this.b, sin(angle))),
             FromInt(0))

ellipse_calculate(this, angle) ==
    vector3d(FAdd(this.position.x, FMul(this.a, cos(angle))),
             FAdd(this.position.y, FMul(this.b, sin(angle))),
             this.position.z)

ellipse_derivative(this, angle) ==
    vector3d(FMul(this.a, -sin(angle)),
             FMul(this.b, cos(angle)),
             FromInt(0))

(* Mutant: z is passed where the second axis belongs. *)
circle3d_mixed(x, y, z, r) == [ellipse3d(x, y, z, r, z) EXCEPT !.kind = "circle"]

circle3d(x, y, z, r) == [ellipse3d(x, y, z, r, r) EXCEPT !.kind = "circle"]

circle3d_xy(x, y, r) == circle3d(x, y, FromInt(0), r)

helix3d(x, y, z, a, b, step, angle_start) ==
    [curve3d(x, y, z) EXCEPT !.kind = "helix", !.a = a, !.b = b,
                             !.step = step, !.angle_start = angle_start]

helix3d_r(x, y, z, r, step) == helix3d(x, y, z, r, r, step, FromInt(0))

(* Mutant: the angle is subtracted from angle_start instead of added. *)
helix_calculate_minus(this, angle) ==
    vector3d(FAdd(this.position.x, FMul(this.a, cos(angle))),
             FAdd(this.position.y, FMul(this.b, sin(angle))),
             FAdd(this.position.z,
                  FMul(FDiv(FAdd(this.angle_start, -angle), FMul(M_PI, FromInt(2))),
                       this.step)))

helix_calculate(this, angle) ==
    vector3d(FAdd(this.position.x, FMul(this.a, cos(angle))),
             FAdd(this.position.y, FMul(this.b, sin(angle))),
             FAdd(this.position.z,
                  FMul(FDiv(FAdd(this.angle_start, angle), FMul(M_PI, FromInt(2))),
                       this.step)))

(* Mutant: the z of the tangent repeats the z formula of calculate. *)
helix_derivative_copied(this, angle) ==
    vector3d(FMul(this.a, -sin(angle)),
             FMul(this.b, cos(angle)),
             FMul(FDiv(FAdd(this.angle_start, angle), FMul(M_PI, FromInt(2))),
                  this.step))

helix_derivative(this, angle) ==
    vector3d(FMul(this.a, -sin(angle)),
             FMul(this.b, cos(angle)),
             FDiv(this.step, FMul(M_PI, FromInt(2))))

(* virtual dispatch on the dynamic type *)
calculate(this, angle) ==
    IF this.kind = "helix" THEN helix_calculate(this, angle)
    ELSE ellipse_calculate(this, angle)

derivative(this, angle) ==
    IF this.kind = "helix" THEN helix_derivative(this, angle)
    ELSE ellipse_derivative(this, angle)

----------------------------------------------------------------------------
(* Output formatting *)

(* p/q >= 0 rounded to the nearest integer, ties to even: the rounding of the
   decimal conversion. *)
RoundHalfEven(p, q) ==
    LET k == p \div q
        r == p % q
    IN  IF 2 * r > q THEN k + 1
        ELSE IF 2 * r < q THEN k
        ELSE IF k % 2 = 0 THEN k ELSE k + 1

RECURSIVE PadDigits(_, _)
(* the w low decimal digits of n, leading zeros kept *)
PadDigits(n, w) ==
    IF w = 0 THEN "" ELSE PadDigits(n \div 10, w - 1) \o ToString(n % 10)

RECURSIVE StripZeros(_, _)
(* the w low decimal digits of n without the trailing zeros *)
StripZeros(n, w) ==
    IF w = 0 THEN ""
    ELSE IF n % 10 = 0 THEN StripZeros(n \div 10, w - 1)
    ELSE PadDigits(n, w)

RECURSIVE DecLen(_)
(* number of decimal digits of n, 0 for 0 *)
DecLen(n) == IF n = 0 THEN 0 ELSE 1 + DecLen(n \div 10)

(* os << double with the stream's default flags: six significant digits,
   trailing zeros and a bare decimal point dropped.  Values of magnitude
   below 10^6 only (no exponent form); a value on the 1/Scale grid has at
   most 4 decimals. *)
put_default(v) ==
    LET m == Abs(v)
        n == DecLen(m \div Scale)
        D == IF n >= 6 THEN 0 ELSE IF 6 - n > 4 THEN 4 ELSE 6 - n
        t == RoundHalfEven(m * 10^D, Scale)
        fr == t % 10^D
    IN  (IF v < 0 THEN "-" ELSE "") \o ToString(t \div 10^D)
        \o (IF fr = 0 THEN "" ELSE "." \o StripZeros(fr, D))

(* ss << double after ss << std::fixed << std::setprecision(2) *)
put_fixed2(v) ==
    LET h == RoundHalfEven(Abs(v) * 100, Scale)
    IN  (IF v < 0 THEN "-" ELSE "") \o ToString(h \div 100) \o "."
        \o PadDigits(h % 100, 2)

(* friend std::ostream &operator<<(std::ostream &os, const vector3d &rhs) *)
ostream_insert(rhs) ==
    "{" \o put_default(rhs.x) \o "," \o put_default(rhs.y) \o ","
    \o put_default(rhs.z) \o "}"

(* std::string vector3d::str() const *)
str(this) ==
    "{" \o put_fixed2(this.x) \o "," \o put_fixed2(this.y) \o ","
    \o put_fixed2(this.z) \o "}"

----------------------------------------------------------------------------
(* Values the variables of main() hold while no main() is running, and the
   values the class-level variables hold while main() runs. *)

NoPrint == [what |-> "none"]
NoResult == [status |-> "none"]
NoCurve == [kind |-> "none"]
NoCall == [ctor |-> "none"]

----------------------------------------------------------------------------
(* Use of the classes by an arbitrary caller: one object is constructed by one
   of the public constructors and then queried. *)

Xs == {FromInt(3)}
Ys == {FromInt(-2)}
Zs == {FromInt(0), FromInt(5), FromInt(2^MantBits)}
Axes == {FromInt(0), FromInt(1), FDiv(FromInt(5), FromInt(2))}
Steps == {FromInt(-1), FromInt(0), FromInt(1), FromInt(3)}
AngleStarts == {FromInt(0), M_PI_4}
Angles == {-M_PI_4, FromInt(0), M_PI_4, M_PI, FMul(M_PI, FromInt(2))}

Constructions ==
    [ctor : {"ellipse3d_xy"}, x : Xs, y : Ys, a : Axes, b : Axes]
    \cup [ctor : {"ellipse3d"}, x : Xs, y : Ys, z : Zs, a : Axes, b : Axes]
    \cup [ctor : {"circle3d_xy"}, x : Xs, y : Ys, r : Axes]
    \cup [ctor : {"circle3d"}, x : Xs, y : Ys, z : Zs, r : Axes]
    \cup [ctor : {"helix3d_r"}, x : Xs, y : Ys, z : Zs, r : Axes, step : Steps]
    \cup [ctor : {"helix3d"}, x : Xs, y : Ys, z : Zs, a : Axes, b : Axes,
          step : Steps, angle_start : AngleStarts]

Construct(c) ==
    CASE c.ctor = "ellipse3d_xy" -> ellipse3d_xy(c.x, c.y, c.a, c.b)
      [] c.ctor = "ellipse3d"    -> ellipse3d(c.x, c.y, c.z, c.a, c.b)
      [] c.ctor = "circle3d_xy"  -> circle3d_xy(c.x, c.y, c.r)
      [] c.ctor = "circle3d"     -> circle3d(c.x, c.y, c.z, c.r)
      [] c.ctor = "helix3d_r"    -> helix3d_r(c.x, c.y, c.z, c.r, c.step)
      [] c.ctor = "helix3d"      -> helix3d(c.x, c.y, c.z, c.a, c.b, c.step,
                                            c.angle_start)

MainIdle ==
    /\ pc = "lib"
    /\ i = 0
    /\ gen = 0
    /\ argOrder = "ltr"
    /\ curves = << >>
    /\ printed = NoPrint
    /\ circleContainer = << >>
    /\ firstLast = NoResult
    /\ totalSum = FromInt(0)

InitCurve ==
    /\ MainIdle
    /\ built \in Constructions
    /\ cur = Construct(built)
    /\ calls = {}

Record(op, angle, result) == [op |-> op, angle |-> angle, result |-> result]

(* Mutant: calculate stores the point it computed into position. *)
CalculateCallStoring ==
    /\ pc = "lib"
    /\ \E angle \in Angles :
          LET r == Record("calculate", angle, calculate(cur, angle))
          IN  /\ Cardinality(calls \cup {r}) <= MaxCalls
              /\ calls' = calls \cup {r}
              /\ cur' = [cur EXCEPT !.position = r.result]
    /\ UNCHANGED <<mainVars, built>>

(* A call of the const method calculate: the object is left as it is. *)
CalculateCall ==
    /\ pc = "lib"
    /\ \E angle \in Angles :
          LET r == Record("calculate", angle, calculate(cur, angle))
          IN  /\ Cardinality(calls \cup {r}) <= MaxCalls
              /\ calls' = calls \cup {r}
    /\ cur' = cur
    /\ UNCHANGED <<mainVars, built>>

(* A call of the const method derivative. *)
DerivativeCall ==
    /\ pc = "lib"
    /\ \E angle \in Angles :
          LET r == Record("derivative", angle, derivative(cur, angle))
          IN  /\ Cardinality(calls \cup {r}) <= MaxCalls
              /\ calls' = calls \cup {r}
    /\ cur' = cur
    /\ UNCHANGED <<mainVars, built>>

NextCurve == CalculateCall \/ DerivativeCall

SpecCurve == InitCurve /\ [][NextCurve]_vars

----------------------------------------------------------------------------
(* main() *)

(* std::uniform_int_distribution<int> dis(1, 100) *)
DisMin == 1
DisMax == 100

(* for(size_t i=0; i<100; i++) *)
NumCurves == 100

(* double angle = M_PI_4 *)
angle0 == M_PI_4

(* std::mt19937 gen(rd()): a deterministic generator started from a seed the
   program does not control.  The generator is modelled by a linear
   congruential step, the seed by a choice among NumSeeds values. *)
Seeds == 0 .. NumSeeds - 1

mt19937_step(s) == (75 * s + 74) % 65537

(* dis(gen) on generator state s: the state after the draw and the value drawn *)
dis(s) ==
    LET s1 == mt19937_step(s)
    IN  [gen |-> s1, value |-> DisMin + (s1 % (DisMax - DisMin + 1))]

RECURSIVE Draws(_, _)
(* n successive draws dis(gen) from state s, converted to double *)
Draws(s, n) ==
    IF n = 0 THEN << >>
    ELSE LET d == dis(s) IN <<FromInt(d.value)>> \o Draws(d.gen, n - 1)

RECURSIVE GenAfter(_, _)
GenAfter(s, n) == IF n = 0 THEN s ELSE GenAfter(dis(s).gen, n - 1)

Reverse(q) == [k \in 1 .. Len(q) |-> q[Len(q) + 1 - k]]

(* The arguments of one call, each a dis(gen), in parameter order: the order in
   which a call's arguments are evaluated is the build's choice. *)
CallArgs(s, n) == IF argOrder = "ltr" THEN Draws(s, n) ELSE Reverse(Draws(s, n))

(* number of dis(gen) arguments of the constructor called in iteration k *)
ArgCount(k) == CASE k % 3 = 0 -> 4 [] k % 3 = 1 -> 3 [] OTHER -> 5

(* Mutant: the circle and helix cases of the switch are exchanged. *)
NewCurveSwapped(k, d) ==
    CASE k % 3 = 0 -> ellipse3d_xy(d[1], d[2], d[3], d[4])
      [] k % 3 = 2 -> circle3d_xy(d[1], d[2], d[3])
      [] OTHER     -> helix3d_r(d[1], d[2], d[3], d[3], d[2])

(* switch(i%3): the curve made in iteration k from the drawn arguments d *)
NewCurve(k, d) ==
    CASE k % 3 = 0 -> ellipse3d_xy(d[1], d[2], d[3], d[4])
      [] k % 3 = 1 -> circle3d_xy(d[1], d[2], d[3])
      [] OTHER     -> helix3d_r(d[1], d[2], d[3], d[4], d[5])

Init ==
    /\ pc = "generate"
    /\ i = 0
    /\ gen \in Seeds
    /\ argOrder \in {"ltr", "rtl"}
    /\ curves = << >>
    /\ printed = NoPrint
    /\ circleContainer = << >>
    /\ firstLast = NoResult
    /\ totalSum = FromInt(0)
    /\ cur = NoCurve
    /\ built = NoCall
    /\ calls = {}

(* One iteration of the generation loop. *)
Generate ==
    /\ pc = "generate"
    /\ i < NumCurves
    /\ curves' = Append(curves, NewCurve(i, CallArgs(gen, ArgCount(i))))
    /\ gen' = GenAfter(gen, ArgCount(i))
    /\ IF i + 1 < NumCurves
       THEN i' = i + 1 /\ pc' = pc
       ELSE i' = 0 /\ pc' = "print"
    /\ UNCHANGED <<argOrder, printed, circleContainer, firstLast, totalSum,
                   cur, built, calls>>

(* One iteration of the print loop: both lines it writes. *)
PrintCurve ==
    /\ pc = "print"
    /\ i < Len(curves)
    /\ LET point == calculate(curves[i + 1], angle0)
           deriv == derivative(curves[i + 1], angle0)
       IN  printed' = [what |-> "curve", point |-> point, derivative |-> deriv,
                       text |-> <<"Point: " \o ostream_insert(point),
                                  "Derivative: " \o ostream_insert(deriv)>>]
    /\ IF i + 1 < Len(curves)
       THEN i' = i + 1 /\ pc' = pc
       ELSE i' = 0 /\ pc' = "filter"
    /\ UNCHANGED <<gen, argOrder, curves, circleContainer, firstLast, totalSum,
                   cur, built, calls>>

(* Mutant: a curve counts as a circle when its two axes are equal. *)
dynamic_cast_by_axes(c) == c.a = c.b

(* dynamic_cast<circle3d<double>*>(curve.get()) yields a non-null pointer *)
dynamic_cast_circle3d(c) == c.kind = "circle"

(* One iteration of the filter loop. *)
Filter ==
    /\ pc = "filter"
    /\ i < Len(curves)
    /\ circleContainer' = IF dynamic_cast_circle3d(curves[i + 1])
                          THEN Append(circleContainer, i + 1)
                          ELSE circleContainer
    /\ IF i + 1 < Len(curves)
       THEN i' = i + 1 /\ pc' = pc
       ELSE i' = 0 /\ pc' = "sort"
    /\ UNCHANGED <<gen, argOrder, curves, printed, firstLast, totalSum,
                   cur, built, calls>>

(* Mutant: the comparison of the lambda is turned around. *)
comp_greater(p, q) == curves[p].a > curves[q].a

(* [](circle3d<double>* a, circle3d<double>* b) { return a->a < b->a; } *)
comp(p, q) == curves[p].a < curves[q].a

RECURSIVE Insert(_, _)
(* p put into the ordered q, behind the elements not greater than it *)
Insert(q, p) ==
    IF q = << >> THEN <<p>>
    ELSE IF comp(p, Head(q)) THEN <<p>> \o q
    ELSE <<Head(q)>> \o Insert(Tail(q), p)

RECURSIVE sort(_)
(* std::sort(begin, end, comp): the elements, ordered by comp *)
sort(q) ==
    IF q = << >> THEN << >>
    ELSE Insert(sort(SubSeq(q, 1, Len(q) - 1)), q[Len(q)])

Sort ==
    /\ pc = "sort"
    /\ circleContainer' = sort(circleContainer)
    /\ pc' = "firstlast"
    /\ UNCHANGED <<i, gen, argOrder, curves, printed, firstLast, totalSum,
                   cur, built, calls>>

(* What a read through an invalid pointer may yield, when it yields a value. *)
Garbage == {FromInt(0), FromInt(7)}

(* circleContainer.front()->a and circleContainer.back()->a.  On an empty
   vector front() and back() are undefined: the program may stop, or go on
   with whatever the reads yield. *)
FrontBack(q) ==
    IF Len(q) > 0
    THEN {[status |-> "ok", first |-> curves[q[1]].a, last |-> curves[q[Len(q)]].a]}
    ELSE {[status |-> "crash", first |-> FromInt(0), last |-> FromInt(0)]}
         \cup {[status |-> "garbage", first |-> f, last |-> l] : f, l \in Garbage}

FirstLast ==
    /\ pc = "firstlast"
    /\ \E r \in FrontBack(circleContainer) :
          /\ firstLast' = r
          /\ IF r.status = "crash"
             THEN pc' = "crashed" /\ printed' = printed
             ELSE /\ pc' = IF Len(circleContainer) > 0 THEN "sum" ELSE "total"
                  /\ printed' = [what |-> "firstlast",
                                 text |-> <<"first: " \o put_default(r.first)
                                            \o ", last: " \o put_default(r.last)>>]
    /\ UNCHANGED <<i, gen, argOrder, curves, circleContainer, totalSum,
                   cur, built, calls>>

(* One iteration of the summing loop. *)
Sum ==
    /\ pc = "sum"
    /\ i < Len(circleContainer)
    /\ totalSum' = FAdd(totalSum, curves[circleContainer[i + 1]].a)
    /\ IF i + 1 < Len(circleContainer)
       THEN i' = i + 1 /\ pc' = pc
       ELSE i' = 0 /\ pc' = "total"
    /\ UNCHANGED <<gen, argOrder, curves, printed, circleContainer, firstLast,
                   cur, built, calls>>

PrintTotal ==
    /\ pc = "total"
    /\ printed' = [what |-> "total",
                   text |-> <<"Total Sum of Radii: " \o put_default(totalSum)>>]
    /\ pc' = "done"
    /\ UNCHANGED <<i, gen, argOrder, curves, circleContainer, firstLast,
                   totalSum, cur, built, calls>>

Next ==
    \/ Generate
    \/ PrintCurve
    \/ Filter
    \/ Sort
    \/ FirstLast
    \/ Sum
    \/ PrintTotal

Spec == Init /\ [][Next]_vars

----------------------------------------------------------------------------
(* The circle query of main() (filter, sort, first and last, sum) on any
   non-empty curve collection of at most MaxLen curves. *)

QueryCurves ==
    {ellipse3d_xy(FromInt(1), FromInt(2), FromInt(3), FromInt(3)),
     ellipse3d_xy(FromInt(1), FromInt(2), FromInt(3), FromInt(4)),
     circle3d_xy(FromInt(1), FromInt(2), FromInt(5)),
     circle3d_xy(FromInt(4), FromInt(4), FromInt(2)),
     helix3d_r(FromInt(1), FromInt(1), FromInt(1), FromInt(2), FromInt(3))}

Collections == UNION {[1 .. n -> QueryCurves] : n \in 1 .. MaxLen}

InitQuery ==
    /\ curves \in Collections
    /\ pc = "filter"
    /\ i = 0
    /\ gen = 0
    /\ argOrder = "ltr"
    /\ printed = NoPrint
    /\ circleContainer = << >>
    /\ firstLast = NoResult
    /\ totalSum = FromInt(0)
    /\ cur = NoCurve
    /\ built = NoCall
    /\ calls = {}

NextQuery ==
    \/ Filter
    \/ Sort
    \/ FirstLast
    \/ Sum
    \/ PrintTotal

SpecQuery == InitQuery /\ [][NextQuery]_vars

----------------------------------------------------------------------------
(* Properties of the classes, checked under SpecCurve *)

Planar == cur.kind \in {"ellipse", "circle"}

CalcCalls == {c \in calls : c.op = "calculate"}

DerivCalls == {c \in calls : c.op = "derivative"}

(* C1: for every ellipse and circle and every angle, the z of the point
   calculate returns is the z of the curve's origin, which is the z given to
   the 3D-anchor constructor and 0 for the 2D-anchor constructors. *)
C1_PlanarZ ==
    Planar =>
        /\ cur.position.z = (IF built.ctor \in {"ellipse3d_xy", "circle3d_xy"}
                             THEN FromInt(0) ELSE built.z)
        /\ \A c \in CalcCalls : c.result.z = cur.position.z

C1_Witness ==
    /\ Planar
    /\ cur.position.z # FromInt(0)
    /\ \E c \in CalcCalls : c.angle = M_PI_4

(* The ellipse built with the anchor and a = b = r of the circle cur. *)
EllipseOfCircle ==
    IF built.ctor = "circle3d_xy"
    THEN ellipse3d_xy(built.x, built.y, built.r, built.r)
    ELSE ellipse3d(built.x, built.y, built.z, built.r, built.r)

(* C2: a circle built with anchor p and radius r stores a = b = r, and returns
   from calculate and from derivative, at every angle, what the ellipse built
   with anchor p and a = b = r returns. *)
C2_CircleIsEllipse ==
    cur.kind = "circle" =>
        /\ cur.a = built.r
        /\ cur.b = built.r
        /\ \A c \in CalcCalls : c.result = calculate(EllipseOfCircle, c.angle)
        /\ \A c \in DerivCalls : c.result = derivative(EllipseOfCircle, c.angle)

C2_Witness ==
    /\ cur.kind = "circle"
    /\ built.ctor = "circle3d"
    /\ built.r # FromInt(0)
    /\ built.r # built.z
    /\ \E c \in CalcCalls : c.angle = M_PI_4
    /\ \E c \in DerivCalls : c.angle = M_PI_4

(* C3: for every helix and every angle, the z of the tangent derivative
   returns is step / (2 pi): one value for all angles, fixed by step alone. *)
C3_HelixDerivativeZ ==
    cur.kind = "helix" =>
        \A c \in DerivCalls :
            c.result.z = FDiv(built.step, FMul(M_PI, FromInt(2)))

C3_Witness ==
    /\ cur.kind = "helix"
    /\ cur.step # FromInt(0)
    /\ cur.angle_start # FromInt(0)
    /\ \E c1, c2 \in DerivCalls : c1.angle # c2.angle

(* C4 as stated: for a helix with step >= 0 and angles t1 < t2, the z of
   calculate(t1) is at most the z of calculate(t2), and strictly less when
   step > 0. *)
C4_StrictlyMonotone ==
    (cur.kind = "helix" /\ cur.step >= FromInt(0)) =>
        \A c1, c2 \in CalcCalls :
            c1.angle < c2.angle =>
                /\ c1.result.z <= c2.result.z
                /\ cur.step > FromInt(0) => c1.result.z < c2.result.z

(* C4 as amended: for a helix with step >= 0 and angles t1 < t2, the z of
   calculate(t1) is at most the z of calculate(t2); with step > 0 the two may
   be equal, since rounding can absorb the advance. *)
C4_Monotone ==
    (cur.kind = "helix" /\ cur.step >= FromInt(0)) =>
        \A c1, c2 \in CalcCalls :
            c1.angle < c2.angle => c1.result.z <= c2.result.z

C4_Witness ==
    /\ cur.kind = "helix"
    /\ cur.step > FromInt(0)
    /\ \E c1, c2, c3 \in CalcCalls :
          /\ c1.angle < c2.angle
          /\ c2.angle < c3.angle
          /\ c1.result.z = c2.result.z
          /\ c2.result.z < c3.result.z

(* C7: calculate and derivative leave the object as it was constructed, and
   calls of one method at one angle return one vector, whatever was called
   in between. *)
C7_Pure ==
    /\ cur = Construct(built)
    /\ \A c1, c2 \in calls :
          (c1.op = c2.op /\ c1.angle = c2.angle) => c1.result = c2.result
    /\ \A c \in CalcCalls : c.result = calculate(Construct(built), c.angle)
    /\ \A c \in DerivCalls : c.result = derivative(Construct(built), c.angle)

C7_Witness ==
    /\ Cardinality(CalcCalls) >= 2
    /\ Cardinality(DerivCalls) >= 1
    /\ cur.kind = "helix"

----------------------------------------------------------------------------
(* Properties of main() *)

IsCircleAt(k) == curves[k].kind = "circle"

(* the indices of the curves constructed as circles among the first n curves,
   in the order of the collection *)
CircleIndices(n) == SelectSeq([k \in 1 .. n |-> k], IsCircleAt)

Radius(p) == curves[p].a

Radii == {Radius(circleContainer[k]) : k \in 1 .. Len(circleContainer)}

Range(q) == {q[k] : k \in 1 .. Len(q)}

Sorted == pc \in {"firstlast", "sum", "total", "done", "crashed"}

(* C5: when the filter yields no circle, the read of the first and last
   element fails with an empty-collection error, and no element of an empty
   container is read. *)
C5_EmptyFails ==
    firstLast.status # "none" =>
        firstLast.status = (IF Len(circleContainer) = 0
                            THEN "EmptyCollectionError" ELSE "ok")

(* C6: the filter collects exactly the curves constructed as circles (no
   helix, no ellipse, whatever its axes), in the order of the collection, and
   changes no curve of the collection. *)
C6_FilterExact ==
    /\ [](/\ \A k \in 1 .. Len(circleContainer) :
                curves[circleContainer[k]].kind = "circle"
          /\ pc = "filter" => circleContainer = CircleIndices(i)
          /\ pc = "sort" => circleContainer = CircleIndices(Len(curves)))
    /\ [][pc = "filter" => curves' = curves]_vars

C6_Witness ==
    /\ pc = "sort"
    /\ Len(circleContainer) > 0
    /\ \E k \in 1 .. Len(curves) :
          curves[k].kind = "ellipse" /\ curves[k].a = curves[k].b
    /\ \E k \in 1 .. Len(curves) : curves[k].kind = "helix"

(* C8: the lines main prints for a curve show the point and the derivative as
   {x,y,z} with every coordinate at exactly two decimals, the form str()
   produces. *)
C8_TwoDecimals ==
    printed.what = "curve" =>
        printed.text = <<"Point: " \o str(printed.point),
                         "Derivative: " \o str(printed.derivative)>>

RECURSIVE SumOf(_)
(* the exact sum of the radii of the curves with the indices in S *)
SumOf(S) ==
    IF S = {} THEN 0
    ELSE LET p == CHOOSE p \in S : TRUE IN Radius(p) + SumOf(S \ {p})

(* C9: after the sort the container is a permutation of the circles the
   filter collected, in non-decreasing order of radius; the values printed as
   first and last are the least and the greatest radius, and the printed
   total is the sum of the radii of those circles. *)
C9_SortedStats ==
    Sorted =>
        /\ Len(circleContainer) = Len(CircleIndices(Len(curves)))
        /\ Range(circleContainer) = Range(CircleIndices(Len(curves)))
        /\ \A k \in 1 .. Len(circleContainer) - 1 :
              Radius(circleContainer[k]) <= Radius(circleContainer[k + 1])
        /\ pc \in {"sum", "total", "done"} =>
              /\ firstLast.status = "ok"
              /\ \A r \in Radii : firstLast.first <= r /\ r <= firstLast.last
              /\ firstLast.first \in Radii
              /\ firstLast.last \in Radii
        /\ pc = "sum" =>
              printed.text = <<"first: " \o put_default(firstLast.first)
                               \o ", last: " \o put_default(firstLast.last)>>
        /\ pc \in {"total", "done"} => totalSum = SumOf(Range(circleContainer))
        /\ pc = "done" =>
              printed.text = <<"Total Sum of Radii: "
                               \o put_default(SumOf(Range(circleContainer)))>>

C9_Witness ==
    /\ pc = "done"
    /\ firstLast.first < firstLast.last
    /\ \E k \in 1 .. Len(circleContainer) - 1 :
          Radius(circleContainer[k]) = Radius(circleContainer[k + 1])
    /\ \E k \in 1 .. Len(circleContainer) - 1 :
          circleContainer[k] > circleContainer[k + 1]

Drawn(v) == \E n \in DisMin .. DisMax : v = FromInt(n)

KindCount(kind) == Cardinality({k \in 1 .. Len(curves) : curves[k].kind = kind})

(* C10: the generation loop builds 100 curves, the curve at index i an
   ellipse, a circle or a helix as i mod 3 is 0, 1 or 2 (34, 33 and 33 of
   them), every generated parameter in 1..100; so the circle container holds
   33 elements, and is not empty, when its first and last element are read. *)
C10_Generated ==
    /\ pc = "generate" => Len(curves) = i
    /\ pc # "generate" =>
          /\ Len(curves) = NumCurves
          /\ KindCount("ellipse") = 34
          /\ KindCount("circle") = 33
          /\ KindCount("helix") = 33
    /\ \A k \in 1 .. Len(curves) :
          LET c == curves[k]
          IN  /\ c.kind = (CASE (k - 1) % 3 = 0 -> "ellipse"
                             [] (k - 1) % 3 = 1 -> "circle"
                             [] OTHER -> "helix")
              /\ Drawn(c.position.x) /\ Drawn(c.position.y)
              /\ Drawn(c.a) /\ Drawn(c.b)
              /\ c.kind = "helix" => Drawn(c.position.z) /\ Drawn(c.step)
              /\ c.kind # "helix" => c.position.z = FromInt(0)
    /\ Sorted => Len(circleContainer) = 33
    /\ firstLast.status \in {"none", "ok"}

C10_Witness ==
    /\ pc = "sum"
    /\ firstLast.status = "ok"
    /\ Len(circleContainer) = 33

====
